---- MODULE Spec2Model ----
(***************************************************************************)
(* A model of the email-analysis demo application:                         *)
(*   - src/database.js       the module-level MongoDB handle               *)
(*   - src/server.js         process start-up, 404 handler                 *)
(*   - src/emails.js         the /api/emails router                        *)
(*   - src/unnamed/part_001  the /api (system) router                      *)
(*   - src/unnamed/part_000  the React client (App)                        *)
(* EmailAnalysisService, MockEmailGenerator, the validation middleware and *)
(* SystemStatus are not among the sources; they are modelled from the      *)
(* written specification, each under a heading that says "from spec".      *)
(***************************************************************************)
EXTENDS Integers, Sequences, FiniteSets, TLC

\* ------------------------------------------------------------------ bounds
\* MongoClient objects the process may construct (connectDB calls that pass
\* the configuration check).
MaxClients == 3
\* Records created by POST requests in one run.
MaxCreates == 2
\* Records already stored when the process starts.
MaxInitial == 1
\* Largest limit a GET /analyses request asks for.
MaxLimitArg == 3
\* Records already stored when the process of the listing runs starts.
MaxStored == 11
\* Requests the client has in flight at once.
MaxInFlight == 2

VARIABLES
    env,        \* process.env: MONGO_URL and DB_NAME
    db,         \* database.js:3   let db
    client,     \* database.js:4   let client
    nClients,   \* MongoClient objects constructed so far
    closed,     \* ids of the MongoClient objects that were close()d
    conn,       \* position of the outstanding connectDB call
    got,        \* outcome of the last database-module call
    lastDb,     \* history: handle assigned by the last successful connectDB
    pc,         \* server.js: position of the process
    exitCode,   \* server.js: argument of process.exit
    store,      \* the analyses collection of the database
    nextId,     \* creation counter: identifier and timestamp of the next record
    req,        \* the request handled last
    sent,       \* the responses written for it, in order
    thrown,     \* history: message of the error the service threw for it
    baseCount,  \* history: records stored at start or after the last delete
    nCreated,   \* history: successful POST /demo and /analyze calls since then
    preCount,   \* history: records stored just before the last delete
    cleared,    \* history: a delete succeeded and no record was created since
    systemStatus,     \* App: useState(null)
    analyses,         \* App: useState([])
    loading,          \* App: useState(false)
    selectedAnalysis, \* App: useState(null)
    mounted,          \* App: the mount effect has run
    net,              \* the client's requests in flight, each sent or answered
    clearedView       \* history: a clear succeeded and the user started nothing since

dbVars == <<env, db, client, nClients, closed, conn, got, lastDb>>
procVars == <<pc, exitCode>>
apiVars == <<store, nextId, req, sent, thrown, baseCount, nCreated, preCount, cleared>>
appVars == <<systemStatus, analyses, loading, selectedAnalysis, mounted, net, clearedView>>

\* ------------------------------------------------------------ JS values
Undefined == [kind |-> "undefined", id |-> 0]
MongoClient(n) == [kind |-> "MongoClient", id |-> n]
\* client.db(dbName): a Db object bound to its client
Db(c) == [kind |-> "Db", id |-> c.id]

\* The values an environment variable may hold: unset, empty, set.
EnvValues == {"undefined", "", "mongodb"}
\* JavaScript's !v on such a value
Falsy(v) == v \in {"undefined", ""}

EnvMissingMsg == "MONGO_URL and DB_NAME environment variables are required"
NotInitMsg == "Database not initialized. Call connectDB first."
ConnectFailMsg == "connect ECONNREFUSED"

Returned(v) == [threw |-> FALSE, value |-> v, message |-> ""]
Threw(m) == [threw |-> TRUE, value |-> Undefined, message |-> m]
NoCall == [threw |-> FALSE, value |-> Undefined, message |-> "no call"]

\* ------------------------------------------------------------ database.js
\* connectDB up to its await (lines 7-16): the configuration check, then
\* client = new MongoClient(mongoUrl) and the start of client.connect().
connectDBConfigOk == ~(Falsy(env.MONGO_URL) \/ Falsy(env.DB_NAME))

connectDBCall ==
    /\ conn = "idle"
    /\ IF ~connectDBConfigOk
       THEN /\ got' = [op |-> "connectDB", res |-> Threw(EnvMissingMsg)]
            /\ UNCHANGED <<client, nClients, conn>>
       ELSE /\ nClients < MaxClients
            /\ nClients' = nClients + 1
            /\ client' = MongoClient(nClients + 1)
            /\ conn' = "awaiting"
            /\ got' = [op |-> "connectDB", res |-> NoCall]
    /\ UNCHANGED <<env, db, closed, lastDb>>

\* connectDB after its await (lines 17-24): db = client.db(dbName) when the
\* connection was made, the error rethrown when it was not.
connectDBResume(ok) ==
    /\ conn = "awaiting"
    /\ conn' = "idle"
    /\ IF ok
       THEN /\ db' = Db(client)
            /\ got' = [op |-> "connectDB", res |-> Returned(Db(client))]
            /\ lastDb' = Db(client)
       ELSE /\ got' = [op |-> "connectDB", res |-> Threw(ConnectFailMsg)]
            /\ UNCHANGED <<db, lastDb>>
    /\ UNCHANGED <<env, client, nClients, closed>>

\* getDB (lines 27-32)
getDB == IF db = Undefined THEN Threw(NotInitMsg) ELSE Returned(db)

getDBCall ==
    /\ got' = [op |-> "getDB", res |-> getDB]
    /\ UNCHANGED <<env, db, client, nClients, closed, conn, lastDb>>

\* closeDB (lines 34-39): closes the client when there is one; neither db
\* nor client is reset.
closeDBResetsHandle ==
    /\ IF client # Undefined
       THEN closed' = closed \cup {client.id}
       ELSE UNCHANGED closed
    /\ db' = Undefined
    /\ got' = [op |-> "closeDB", res |-> Returned(Undefined)]
    /\ UNCHANGED <<env, client, nClients, conn, lastDb>>

closeDBCall ==
    /\ IF client # Undefined
       THEN closed' = closed \cup {client.id}
       ELSE UNCHANGED closed
    /\ got' = [op |-> "closeDB", res |-> Returned(Undefined)]
    /\ UNCHANGED <<env, db, client, nClients, conn, lastDb>>

\* ---------------------------- analysis records and ESP types (from spec)
\* The ESP identifiers MockEmailGenerator.getAvailableESPTypes() publishes.
Catalog == <<"gmail", "outlook", "yahoo", "amazon_ses", "sendgrid", "mailchimp">>
CatalogSet == {Catalog[i] : i \in 1..Len(Catalog)}
\* What ESP detection may classify submitted headers as.
DetectedTypes == CatalogSet \cup {"unknown"}

Analysis(n, t) == [id |-> n, esp_type |-> t, processed_at |-> n]
NoAnalysis == [id |-> 0, esp_type |-> "", processed_at |-> 0]

\* The collection as found at start-up: k older records of ESP type t.
InitialStore(k, t) == {Analysis(0 - i, t) : i \in 1..k}

DbFailMsg == "MongoNetworkError"
BadTypeMsg == "Unsupported ESP type"

\* An outcome of a service call: it threw, or returned value, leaving the
\* collection as store.
Ok(v, st) == [threw |-> FALSE, message |-> "", value |-> v, store |-> st]
Fail(m, v) == [threw |-> TRUE, message |-> m, value |-> v, store |-> store]

\* ------------------------------------------- EmailAnalysisService (from spec)
\* Every service call reaches the collection through getDB(), and any
\* database operation may fail; a failed call leaves the collection as it was.
Failures(v) ==
    IF getDB.threw THEN {Fail(getDB.message, v)} ELSE {Fail(DbFailMsg, v)}

\* analyzeEmail(body): one record inserted, classified by ESP detection.
analyzeEmail(body) ==
    Failures(NoAnalysis) \cup
    IF getDB.threw THEN {}
    ELSE {Ok(Analysis(nextId, t), store \cup {Analysis(nextId, t)}) : t \in DetectedTypes}

\* createDemoAnalysis(espType): one synthetic record of the requested type
\* inserted; of a type drawn from the catalog when none is requested. What
\* an unsupported type does is not specified: it throws or draws a type.
DemoTypes(espType) ==
    IF espType = "null" THEN CatalogSet
    ELSE IF espType \in CatalogSet THEN {espType}
    ELSE CatalogSet

createDemoAnalysis(espType) ==
    Failures(NoAnalysis) \cup
    (IF espType # "null" /\ espType \notin CatalogSet /\ ~getDB.threw
     THEN {Fail(BadTypeMsg, NoAnalysis)} ELSE {}) \cup
    IF getDB.threw THEN {}
    ELSE {Ok(Analysis(nextId, t), store \cup {Analysis(nextId, t)}) : t \in DemoTypes(espType)}

\* The records of S, most recently processed first.
RECURSIVE SortByRecency(_)
SortByRecency(S) ==
    IF S = {} THEN <<>>
    ELSE LET newest == CHOOSE r \in S : \A o \in S : o.processed_at <= r.processed_at
         IN <<newest>> \o SortByRecency(S \ {newest})

Take(seq, n) == SubSeq(seq, 1, IF n < Len(seq) THEN n ELSE Len(seq))

\* getRecentAnalyses(limit): the limit most recent records, newest first.
getRecentAnalyses(limit) ==
    Failures(<<>>) \cup
    IF getDB.threw THEN {} ELSE {Ok(Take(SortByRecency(store), limit), store)}

\* clearAllAnalyses(): every record deleted; returns how many there were.
clearAllAnalyses ==
    Failures(0) \cup
    IF getDB.threw THEN {} ELSE {Ok(Cardinality(store), {})}

\* getTotalAnalysesCount()
getTotalAnalysesCount ==
    Failures(0) \cup
    IF getDB.threw THEN {} ELSE {Ok(Cardinality(store), store)}

\* new SystemStatus(totalCount): the count and the static configuration echoes
SystemStatus(totalCount) ==
    [imap_status |-> "demo", email_address |-> "configured", subject_line |-> "configured",
     total_emails_processed |-> totalCount]

\* ------------------------------------- validation middleware (from spec)
\* A submitted body: its header mapping is missing, not a mapping, or a mapping.
Payloads == {[raw_headers |-> h] : h \in {"absent", "string", "object"}}
validateEmailAnalysis(body) == body.raw_headers = "object"

\* A query-string value: absent, empty, not a number, or an integer.
Absent == [kind |-> "absent", n |-> 0]
QueryInt(n) == [kind |-> "int", n |-> n]
LimitArgs == {Absent, [kind |-> "empty", n |-> 0], [kind |-> "text", n |-> 0]}
                 \cup {QueryInt(n) : n \in -1..MaxLimitArg} \cup {QueryInt(11)}
validateLimit(limit) == limit.kind = "absent" \/ (limit.kind = "int" /\ limit.n >= 1)

ValidationMsg == "Validation failed"

\* ---------------------------------------------------------------- server.js
\* startServer up to its await (lines 38-40): connectDB runs to its own await,
\* or throws on missing configuration, which the catch turns into exit(1).
startServerNoAwait ==
    /\ pc = "boot"
    /\ connectDBCall
    /\ IF got'.res.threw
       THEN pc' = "exited" /\ exitCode' = 1
       ELSE pc' = "listening" /\ UNCHANGED exitCode
    /\ UNCHANGED apiVars

startServerCall ==
    /\ pc = "boot"
    /\ connectDBCall
    /\ IF got'.res.threw
       THEN pc' = "exited" /\ exitCode' = 1
       ELSE pc' = "connecting" /\ UNCHANGED exitCode
    /\ UNCHANGED apiVars

\* startServer after its await (lines 42-50): app.listen once connectDB has
\* returned, process.exit(1) when it threw.
startServerResume ==
    /\ pc = "connecting"
    /\ \E ok \in BOOLEAN :
          /\ connectDBResume(ok)
          /\ IF ok
             THEN pc' = "listening" /\ UNCHANGED exitCode
             ELSE pc' = "exited" /\ exitCode' = 1
    /\ UNCHANGED apiVars

\* process.on('SIGINT') (lines 32-35). The handler runs from the event loop,
\* so not before the module's top level, startServer() included, has run to
\* its first await.
Sigint ==
    /\ pc \in {"connecting", "listening"}
    /\ pc' = "exited"
    /\ exitCode' = 0
    /\ UNCHANGED <<dbVars, apiVars>>

\* ------------------------------------------------------------ the routers
Json(status, body) == [status |-> status, body |-> body]
Success(s) == Len(s) = 1 /\ s[1].status = 200
Creates(route) == route \in {"POST /api/emails/analyze", "POST /api/emails/demo"}
DeleteRoute == "DELETE /api/emails/analyses"

\* What an observer of the traffic records of the request just answered;
\* the counts marked "stored" are read off the collection itself.
Observe ==
    /\ nCreated' = IF req'.route = DeleteRoute THEN 0
                   ELSE IF Creates(req'.route) /\ Success(sent') THEN nCreated + 1
                   ELSE nCreated
    /\ baseCount' = IF req'.route = DeleteRoute THEN Cardinality(store') ELSE baseCount
    /\ preCount' = IF req'.route = DeleteRoute THEN Cardinality(store) ELSE preCount
    /\ cleared' = IF req'.route = DeleteRoute THEN Success(sent')
                  ELSE IF Creates(req'.route) /\ Success(sent') THEN FALSE
                  ELSE cleared

\* A request is handled only by a process that has called app.listen.
Serving == pc = "listening"
Handled == UNCHANGED <<dbVars, procVars>>

\* A validation middleware that refuses: a 400 and no call of next().
Refuse ==
    /\ sent' = <<Json(400, [error |-> ValidationMsg])>>
    /\ thrown' = ""
    /\ UNCHANGED store

\* The catch block answering without status(500).
ResponseCatchSends200(o, body, error) ==
    IF o.threw THEN Json(200, [error |-> error, message |-> o.message])
    ELSE Json(200, body)

\* try { res.json(body) } catch (error) { res.status(500).json({error, message}) }
\* for an outcome o of the awaited service call.
Response(o, body, error) ==
    IF o.threw THEN Json(500, [error |-> error, message |-> o.message])
    ELSE Json(200, body)

\* The response written, and what the service call left stored.
Respond(o, response) ==
    /\ sent' = <<response>>
    /\ thrown' = IF o.threw THEN o.message ELSE ""
    /\ store' = o.store

\* router.post('/analyze') handler (emails.js:12-23)
AnalyzeResponse(o) == Response(o, o.value, "Failed to analyze email")

AnalyzeHandler(body) ==
    \E o \in analyzeEmail(body) :
        /\ Respond(o, AnalyzeResponse(o))
        /\ nextId' = IF o.threw THEN nextId ELSE nextId + 1

\* router.post('/analyze', validateEmailAnalysis, handler)
PostAnalyzeUnvalidated(body) ==
    /\ Serving
    /\ nextId <= MaxCreates
    /\ req' = [route |-> "POST /api/emails/analyze", body |-> body]
    /\ AnalyzeHandler(body)
    /\ Observe
    /\ Handled

PostAnalyze(body) ==
    /\ Serving
    /\ nextId <= MaxCreates
    /\ req' = [route |-> "POST /api/emails/analyze", body |-> body]
    /\ IF validateEmailAnalysis(body)
       THEN AnalyzeHandler(body)
       ELSE Refuse /\ UNCHANGED nextId
    /\ Observe
    /\ Handled

\* router.get('/analyses', validateLimit, handler) (emails.js:26-38):
\* limit = req.query.limit || 10
DefaultLimit == 10
QueryFalsy(v) == v.kind \in {"absent", "empty"}
\* The query's limit never read.
LimitOfAlwaysDefault(arg) == DefaultLimit

LimitOf(arg) == IF QueryFalsy(arg) THEN DefaultLimit ELSE arg.n

AnalysesResponse(o) == Response(o, o.value, "Failed to get analyses")

GetAnalyses(arg) ==
    /\ Serving
    /\ req' = [route |-> "GET /api/emails/analyses", limit |-> arg]
    /\ IF validateLimit(arg)
       THEN \E o \in getRecentAnalyses(LimitOf(arg)) :
                Respond(o, AnalysesResponse(o))
       ELSE Refuse
    /\ UNCHANGED nextId
    /\ Observe
    /\ Handled

\* router.post('/demo') (emails.js:41-54):
\* espType = req.query.esp_type || req.body.esp_type || null
Selectors == CatalogSet \cup {"undefined", "", "bogus"}
BodySelectors == {"undefined", "sendgrid", "bogus"}
JsOr(a, b) == IF Falsy(a) THEN b ELSE a
\* The body's selector tried first.
EspTypeOfBodyFirst(query, body) == JsOr(body, JsOr(query, "null"))

EspTypeOf(query, body) == JsOr(query, JsOr(body, "null"))

DemoResponse(o) == Response(o, o.value, "Failed to create demo analysis")

PostDemo(query, body) ==
    /\ Serving
    /\ nextId <= MaxCreates
    /\ req' = [route |-> "POST /api/emails/demo", query |-> query, body |-> body]
    /\ \E o \in createDemoAnalysis(EspTypeOf(query, body)) :
          /\ Respond(o, DemoResponse(o))
          /\ nextId' = IF o.threw THEN nextId ELSE nextId + 1
    /\ Observe
    /\ Handled

\* router.delete('/analyses') (emails.js:57-71)
\* The count taken after the deletion instead of from it.
ClearResponseCountsAfter(o) ==
    Response(o, [message |-> <<"Cleared", Cardinality(o.store), "analyses">>,
                 deleted_count |-> Cardinality(o.store)],
             "Failed to clear analyses")

ClearResponse(o) ==
    Response(o, [message |-> <<"Cleared", o.value, "analyses">>,
                 deleted_count |-> o.value],
             "Failed to clear analyses")

DeleteAnalyses ==
    /\ Serving
    /\ req' = [route |-> DeleteRoute]
    /\ \E o \in clearAllAnalyses : Respond(o, ClearResponse(o))
    /\ UNCHANGED nextId
    /\ Observe
    /\ Handled

\* router.get('/demo/esp-types') (emails.js:74-88)
getAvailableESPTypes == Catalog

\* total read from a property an array does not have.
GetEspTypesNoLength ==
    /\ Serving
    /\ req' = [route |-> "GET /api/emails/demo/esp-types"]
    /\ sent' = <<Json(200, [available_esp_types |-> getAvailableESPTypes, total |-> 0])>>
    /\ thrown' = ""
    /\ UNCHANGED <<store, nextId>>
    /\ Observe
    /\ Handled

GetEspTypes ==
    /\ Serving
    /\ req' = [route |-> "GET /api/emails/demo/esp-types"]
    /\ sent' = <<Json(200, [available_esp_types |-> getAvailableESPTypes,
                            total |-> Len(getAvailableESPTypes)])>>
    /\ thrown' = ""
    /\ UNCHANGED <<store, nextId>>
    /\ Observe
    /\ Handled

\* router.get('/system/status') (part_001:23-35)
StatusResponse(o) == Response(o, SystemStatus(o.value), "Failed to get system status")

GetStatus ==
    /\ Serving
    /\ req' = [route |-> "GET /api/system/status"]
    /\ \E o \in getTotalAnalysesCount : Respond(o, StatusResponse(o))
    /\ UNCHANGED nextId
    /\ Observe
    /\ Handled

\* router.get('/') (part_001:8-20)
GetRoot ==
    /\ Serving
    /\ req' = [route |-> "GET /api"]
    /\ sent' = <<Json(200, [message |-> "Email Analysis System API", version |-> "1.0.0"])>>
    /\ thrown' = ""
    /\ UNCHANGED <<store, nextId>>
    /\ Observe
    /\ Handled

\* The 404 handler (server.js:27-29), reached by a request no route matches.
NotFound ==
    /\ Serving
    /\ req' = [route |-> "GET /api/unknown"]
    /\ sent' = <<Json(404, [error |-> "Route not found"])>>
    /\ thrown' = ""
    /\ UNCHANGED <<store, nextId>>
    /\ Observe
    /\ Handled

\* ------------------------------------------------------- the server process
vars == <<env, db, client, nClients, closed, conn, got, lastDb, pc, exitCode,
          store, nextId, req, sent, thrown, baseCount, nCreated, preCount, cleared,
          systemStatus, analyses, loading, selectedAnalysis, mounted, net, clearedView>>

\* JavaScript's null, where an analysis or a status may stand
Null == [id |-> 0, esp_type |-> "null", processed_at |-> 0]
NullStatus == [imap_status |-> "null", email_address |-> "null", subject_line |-> "null",
               total_emails_processed |-> 0]

\* The client's requests, by what started them; one that is not in flight.
Origins == {"status", "mount", "refresh", "demo", "clear"}
Idle == [stage |-> "idle", kind |-> "none", query |-> "undefined", response |-> Json(0, <<>>)]

\* App before it is mounted (part_000:9-12)
AppInit ==
    /\ systemStatus = NullStatus
    /\ analyses = <<>>
    /\ loading = FALSE
    /\ selectedAnalysis = Null
    /\ mounted = FALSE
    /\ net = [k \in Origins |-> Idle]
    /\ clearedView = FALSE

\* A step of the server alone
NoApp == UNCHANGED appVars

Envs == [MONGO_URL : EnvValues, DB_NAME : EnvValues]

InitWith(stores) ==
    /\ env \in Envs
    /\ db = Undefined
    /\ client = Undefined
    /\ nClients = 0
    /\ closed = {}
    /\ conn = "idle"
    /\ got = [op |-> "none", res |-> NoCall]
    /\ lastDb = Undefined
    /\ pc = "boot"
    /\ exitCode = -1
    /\ store \in stores
    /\ nextId = 1
    /\ req = [route |-> "none"]
    /\ sent = <<>>
    /\ thrown = ""
    /\ baseCount = Cardinality(store)
    /\ nCreated = 0
    /\ preCount = 0
    /\ cleared = FALSE
    /\ AppInit

Init == InitWith({InitialStore(k, "unknown") : k \in 0..MaxInitial})

Requests ==
    \/ \E body \in Payloads : PostAnalyze(body) /\ NoApp
    \/ \E arg \in LimitArgs : GetAnalyses(arg) /\ NoApp
    \/ \E query \in Selectors, body \in BodySelectors : PostDemo(query, body) /\ NoApp
    \/ DeleteAnalyses /\ NoApp
    \/ GetEspTypes /\ NoApp
    \/ GetStatus /\ NoApp
    \/ GetRoot /\ NoApp
    \/ NotFound /\ NoApp

Next ==
    \/ startServerCall /\ NoApp
    \/ startServerResume /\ NoApp
    \/ Requests

Spec == Init /\ [][Next]_vars

\* The listing runs: a configured process that finds up to MaxStored records,
\* and requests that list, create (one selector) and delete.
InitList ==
    /\ InitWith({InitialStore(k, "gmail") : k \in 0..MaxStored})
    /\ connectDBConfigOk

NextList ==
    \/ startServerCall /\ NoApp
    \/ startServerResume /\ NoApp
    \/ \E arg \in LimitArgs : GetAnalyses(arg) /\ NoApp
    \/ PostDemo("outlook", "undefined") /\ NoApp
    \/ DeleteAnalyses /\ NoApp

SpecList == InitList /\ [][NextList]_vars

\* The start-up runs: any configuration, SIGINT at any moment, and requests
\* that read, create (one selector, one payload) and delete.
NextStartup ==
    \/ startServerCall /\ NoApp
    \/ startServerResume /\ NoApp
    \/ Sigint /\ NoApp
    \/ \E arg \in {Absent, QueryInt(1)} : GetAnalyses(arg) /\ NoApp
    \/ PostDemo("gmail", "undefined") /\ NoApp
    \/ \E body \in Payloads : PostAnalyze(body) /\ NoApp
    \/ DeleteAnalyses /\ NoApp
    \/ GetEspTypes /\ NoApp
    \/ GetStatus /\ NoApp
    \/ GetRoot /\ NoApp
    \/ NotFound /\ NoApp

SpecStartup == Init /\ [][NextStartup]_vars

\* The database module under any caller: connectDB (one call outstanding at
\* a time), getDB and closeDB in any order, under any configuration.
NoServer == UNCHANGED <<procVars, apiVars, appVars>>

NextDatabase ==
    \/ connectDBCall /\ NoServer
    \/ \E ok \in BOOLEAN : connectDBResume(ok) /\ NoServer
    \/ getDBCall /\ NoServer
    \/ closeDBCall /\ NoServer

SpecDatabase == InitWith({{}}) /\ [][NextDatabase]_vars

\* -------------------------------------------------------- the client (App)
\* The client's requests, by what started them: the two of the mount effect,
\* the Refresh button, a demo button (the POST, then the fetch it awaits) and
\* the Clear All button. Each is idle, sent, or answered with response.
Request(kind, query) ==
    [stage |-> "sent", kind |-> kind, query |-> query, response |-> Json(0, <<>>)]
InFlight == Cardinality({k \in Origins : net[k].stage # "idle"})

\* useEffect(() => { fetchSystemStatus(); fetchAnalyses(); }, []) (lines 14-17)
Mount ==
    /\ ~mounted
    /\ mounted' = TRUE
    /\ net' = [net EXCEPT !["status"] = Request("status", "undefined"),
                          !["mount"] = Request("fetch", "undefined")]
    /\ UNCHANGED <<systemStatus, analyses, loading, selectedAnalysis, clearedView>>

\* The Refresh button: fetchAnalyses up to its await (lines 28-30, 149)
ClickRefresh ==
    /\ mounted
    /\ net["refresh"].stage = "idle"
    /\ InFlight < MaxInFlight
    /\ net' = [net EXCEPT !["refresh"] = Request("fetch", "undefined")]
    /\ clearedView' = FALSE
    /\ UNCHANGED <<systemStatus, analyses, loading, selectedAnalysis, mounted>>

\* A demo button, enabled while not loading: createDemoAnalysis up to its
\* await (lines 40-44, 119-146); the selector goes in the query string, and
\* the request has no body.
DemoButtons == {"gmail", "outlook", "sendgrid", "null"}

ClickDemo(espType) ==
    /\ mounted
    /\ ~loading
    /\ InFlight < MaxInFlight
    /\ loading' = TRUE
    /\ net' = [net EXCEPT !["demo"] =
                  Request("demo", IF espType = "null" THEN "undefined" ELSE espType)]
    /\ clearedView' = FALSE
    /\ UNCHANGED <<systemStatus, analyses, selectedAnalysis, mounted>>

\* The Clear All button: clearAnalyses up to its await (lines 54-56, 152)
ClickClear ==
    /\ mounted
    /\ net["clear"].stage = "idle"
    /\ InFlight < MaxInFlight
    /\ net' = [net EXCEPT !["clear"] = Request("clear", "undefined")]
    /\ UNCHANGED <<systemStatus, analyses, loading, selectedAnalysis, clearedView, mounted>>

\* A click on an entry of the list, which is rendered only while an analysis
\* is selected (lines 159, 229-233)
ClickAnalysis(i) ==
    /\ selectedAnalysis # Null
    /\ i \in 1..Len(analyses)
    /\ selectedAnalysis' = analyses[i]
    /\ UNCHANGED <<systemStatus, analyses, loading, net, clearedView, mounted>>

\* The server answers the request of origin k by the route it addresses:
\* the route's middleware, service call and response, as in the routers.
Answer(k, o, response) ==
    /\ net' = [net EXCEPT ![k].stage = "answered", ![k].response = response]
    /\ store' = o.store

ServerAnswers(k) ==
    /\ Serving
    /\ net[k].stage = "sent"
    /\ CASE net[k].kind = "status" ->
              /\ \E o \in getTotalAnalysesCount : Answer(k, o, StatusResponse(o))
              /\ UNCHANGED nextId
         [] net[k].kind = "fetch" ->
              /\ validateLimit(Absent)
              /\ \E o \in getRecentAnalyses(LimitOf(Absent)) : Answer(k, o, AnalysesResponse(o))
              /\ UNCHANGED nextId
         [] net[k].kind = "demo" ->
              /\ nextId <= MaxCreates
              /\ \E o \in createDemoAnalysis(EspTypeOf(net[k].query, "undefined")) :
                    /\ Answer(k, o, DemoResponse(o))
                    /\ nextId' = IF o.threw THEN nextId ELSE nextId + 1
         [] net[k].kind = "clear" ->
              /\ \E o \in clearAllAnalyses : Answer(k, o, ClearResponse(o))
              /\ UNCHANGED nextId
    /\ UNCHANGED <<dbVars, procVars, req, sent, thrown, baseCount, nCreated, preCount, cleared>>
    /\ UNCHANGED <<systemStatus, analyses, loading, selectedAnalysis, clearedView, mounted>>

\* axios resolves on a 2xx status and rejects on any other.
Resolved(m) == m.response.status \in 200..299
Answered(k, kind) == net[k].stage = "answered" /\ net[k].kind = kind

\* fetchSystemStatus after its await (lines 21-25)
ReceiveStatus(k) ==
    /\ Answered(k, "status")
    /\ systemStatus' = IF Resolved(net[k]) THEN net[k].response.body ELSE systemStatus
    /\ net' = [net EXCEPT ![k] = Idle]
    /\ UNCHANGED <<analyses, loading, selectedAnalysis, clearedView, mounted>>

\* fetchAnalyses after its await (lines 30-37); when createDemoAnalysis
\* awaited it, that function's finally block follows (lines 46-51).
ReceiveAnalyses(k) ==
    /\ Answered(k, "fetch")
    /\ LET data == net[k].response.body
       IN IF Resolved(net[k])
          THEN /\ analyses' = data
               /\ selectedAnalysis' = IF Len(data) > 0 THEN data[1] ELSE selectedAnalysis
          ELSE UNCHANGED <<analyses, selectedAnalysis>>
    /\ loading' = IF k = "demo" THEN FALSE ELSE loading
    /\ net' = [net EXCEPT ![k] = Idle]
    /\ UNCHANGED <<systemStatus, clearedView, mounted>>

\* createDemoAnalysis after its first await (lines 44-51): the record is
\* selected and fetchAnalyses is called; on an error loading ends at once.
ReceiveDemo(k) ==
    /\ Answered(k, "demo")
    /\ IF Resolved(net[k])
       THEN /\ selectedAnalysis' = net[k].response.body
            /\ net' = [net EXCEPT ![k] = Request("fetch", "undefined")]
            /\ UNCHANGED loading
       ELSE /\ loading' = FALSE
            /\ net' = [net EXCEPT ![k] = Idle]
            /\ UNCHANGED selectedAnalysis
    /\ UNCHANGED <<systemStatus, analyses, clearedView, mounted>>

\* clearAnalyses after its await (lines 56-61)
ReceiveClear(k) ==
    /\ Answered(k, "clear")
    /\ IF Resolved(net[k])
       THEN /\ analyses' = <<>>
            /\ selectedAnalysis' = Null
            /\ clearedView' = TRUE
       ELSE UNCHANGED <<analyses, selectedAnalysis, clearedView>>
    /\ net' = [net EXCEPT ![k] = Idle]
    /\ UNCHANGED <<systemStatus, loading, mounted>>

NoServerStep == UNCHANGED <<dbVars, procVars, apiVars>>

\* The client runs: a listening server holding up to MaxInitial records, and
\* one App. The responses reach the client in any order.
InitApp ==
    /\ env = [MONGO_URL |-> "mongodb", DB_NAME |-> "mongodb"]
    /\ client = MongoClient(1)
    /\ db = Db(client)
    /\ nClients = 1
    /\ closed = {}
    /\ conn = "idle"
    /\ got = [op |-> "connectDB", res |-> Returned(db)]
    /\ lastDb = db
    /\ pc = "listening"
    /\ exitCode = -1
    /\ store \in {InitialStore(k, "unknown") : k \in 0..MaxInitial}
    /\ nextId = 1
    /\ req = [route |-> "none"]
    /\ sent = <<>>
    /\ thrown = ""
    /\ baseCount = Cardinality(store)
    /\ nCreated = 0
    /\ preCount = 0
    /\ cleared = FALSE
    /\ AppInit

NextApp ==
    \/ Mount /\ NoServerStep
    \/ ClickRefresh /\ NoServerStep
    \/ \E espType \in DemoButtons : ClickDemo(espType) /\ NoServerStep
    \/ ClickClear /\ NoServerStep
    \/ \E i \in 1..Len(analyses) : ClickAnalysis(i) /\ NoServerStep
    \/ \E k \in Origins : ServerAnswers(k)
    \/ \E k \in Origins : ReceiveStatus(k) /\ NoServerStep
    \/ \E k \in Origins : ReceiveAnalyses(k) /\ NoServerStep
    \/ \E k \in Origins : ReceiveDemo(k) /\ NoServerStep
    \/ \E k \in Origins : ReceiveClear(k) /\ NoServerStep

SpecApp == InitApp /\ [][NextApp]_vars

\* ------------------------------------------------------------------ claims
LastRoute(route) == req.route = route
Body == sent[1].body

\* C1: the stored count, and the total GET /system/status reports, is the
\* count at the start (or after the last delete) plus the number of
\* successful POST /demo and /analyze calls since: every successful call
\* inserted exactly one record and no failed call inserted any.
C1_CountGrowsByN ==
    /\ Cardinality(store) = baseCount + nCreated
    /\ LastRoute("GET /api/system/status") /\ Success(sent)
          => Body.total_emails_processed = baseCount + nCreated

C1_Witness ==
    /\ LastRoute("GET /api/system/status") /\ Success(sent)
    /\ nCreated >= 2 /\ baseCount >= 1
    /\ \E r1, r2 \in store : r1.esp_type = "unknown" /\ r2.esp_type = "gmail" /\ r1.id > 0 /\ r2.id > 0

\* C2: a successful DELETE /analyses reports as deleted_count the number of
\* records stored just before it and leaves none; until a record is created a
\* GET /analyses returns the empty list and /system/status a total of 0.
C2_DeleteRemovesAll ==
    /\ LastRoute(DeleteRoute) /\ Success(sent)
          => Body.deleted_count = preCount /\ store = {}
    /\ cleared /\ LastRoute("GET /api/emails/analyses") /\ Success(sent)
          => Body = <<>>
    /\ cleared /\ LastRoute("GET /api/system/status") /\ Success(sent)
          => Body.total_emails_processed = 0

C2_Witness ==
    /\ cleared /\ preCount >= 2
    /\ LastRoute("GET /api/emails/analyses") /\ Success(sent)

\* C4: a successful POST /demo whose query string names a catalog type
\* returns a record of that type, whatever the body names; with no selector
\* in the query string and a catalog type in the body, a record of the body's
\* type; and the record returned is the one stored.
C4_DemoMatchesSelector ==
    LastRoute("POST /api/emails/demo") /\ Success(sent) =>
        /\ req.query \in CatalogSet => Body.esp_type = req.query
        /\ req.query = "undefined" /\ req.body \in CatalogSet => Body.esp_type = req.body
        /\ Body \in store

C4_Witness ==
    /\ LastRoute("POST /api/emails/demo") /\ Success(sent)
    /\ req.query = "gmail" /\ req.body = "sendgrid"
    /\ Body.esp_type = "gmail"

\* C5: a successful POST /demo with no selector in the query string nor in
\* the body returns a record whose esp_type is an entry of the list GET
\* /demo/esp-types publishes, and that response's total is the number of
\* entries of its list.
C5_DemoDrawsFromCatalog ==
    /\ LastRoute("POST /api/emails/demo") /\ Success(sent)
         /\ req.query = "undefined" /\ req.body = "undefined"
          => \E i \in 1..Len(getAvailableESPTypes) : Body.esp_type = getAvailableESPTypes[i]
    /\ LastRoute("GET /api/emails/demo/esp-types")
          => Success(sent) /\ Body.total = Len(Body.available_esp_types)
                           /\ Body.total = Cardinality(CatalogSet)

C5_Witness ==
    /\ LastRoute("POST /api/emails/demo") /\ Success(sent)
    /\ req.query = "undefined" /\ req.body = "undefined"
    /\ Body.esp_type = "mailchimp"

\* C6: a POST /analyze whose payload the validation refuses is answered with
\* one 4xx response, and the step that handles it changes nothing stored: the
\* service is not called (no record, no identifier consumed, nothing thrown).
C6_MalformedRejected ==
    [][req'.route = "POST /api/emails/analyze" /\ ~validateEmailAnalysis(req'.body)
          => /\ store' = store
             /\ nextId' = nextId
             /\ thrown' = ""
             /\ Len(sent') = 1
             /\ sent'[1].status \in 400..499]_vars

C6_Witness ==
    /\ LastRoute("POST /api/emails/analyze")
    /\ req.body.raw_headers = "string"
    /\ sent[1].status = 400
    /\ store # {}

\* C7: every request gets exactly one response; an error thrown by the
\* service or database layer gives a 500 whose body is {error, message} with
\* the thrown message; an unmatched route gives a 404 with a body of the same
\* two fields.
C7_ErrorEnvelope ==
    req.route # "none" =>
        /\ Len(sent) = 1
        /\ thrown # "" => sent[1].status = 500
        /\ sent[1].status = 500 =>
              DOMAIN Body = {"error", "message"} /\ Body.message = thrown
        /\ sent[1].status = 404 => DOMAIN Body = {"error", "message"}

\* C3: a successful GET /analyses with limit L, L being 10 when the query
\* has none, returns min(L, total) records, all of them stored, each older
\* than the one before it, and none of those left out newer than one returned.
C3_RecentLimited ==
    LastRoute("GET /api/emails/analyses") /\ Success(sent) =>
        LET L == IF req.limit.kind = "absent" THEN 10 ELSE req.limit.n
            total == Cardinality(store)
            returned == {Body[i] : i \in 1..Len(Body)}
        IN /\ Len(Body) <= L
           /\ Len(Body) = IF L < total THEN L ELSE total
           /\ returned \subseteq store
           /\ \A i \in 1..Len(Body) - 1 : Body[i].processed_at > Body[i + 1].processed_at
           /\ \A r \in store \ returned : \A x \in returned : r.processed_at < x.processed_at

C3_Witness ==
    /\ LastRoute("GET /api/emails/analyses") /\ Success(sent)
    /\ req.limit.kind = "absent"
    /\ Cardinality(store) > 10
    /\ Len(Body) = 10
    /\ Body[1].esp_type = "outlook"

\* A limit above the default is honoured too.
C3_WitnessLimit ==
    /\ LastRoute("GET /api/emails/analyses") /\ Success(sent)
    /\ req.limit = QueryInt(11)
    /\ Len(Body) = 11

\* C8: a connectDB that threw (configuration missing, or the connection
\* refused) ends the process with exit code 1 and it never listens; a process
\* that listens, and any request answered, has a database handle, the one
\* its connectDB returned.
ConnectThrew == got.op = "connectDB" /\ got.res.threw

C8_StartupFatal ==
    /\ ~connectDBConfigOk /\ pc # "boot" => ConnectThrew /\ got.res.message = EnvMissingMsg
    /\ ConnectThrew => pc = "exited" /\ exitCode = 1 /\ req.route = "none"
    /\ pc = "listening" => db # Undefined /\ got = [op |-> "connectDB", res |-> Returned(db)]
    /\ req.route # "none" => db # Undefined /\ thrown # NotInitMsg
    /\ exitCode = 1 => ConnectThrew

C8_Witness ==
    /\ pc = "exited" /\ exitCode = 1
    /\ got.res.message = ConnectFailMsg

\* The two other cases of C8: a missing variable, and a process that listens.
C8_WitnessMissing ==
    /\ pc = "exited" /\ exitCode = 1
    /\ env.DB_NAME = "" /\ env.MONGO_URL = "mongodb"

C8_WitnessListening ==
    /\ pc = "listening"
    /\ LastRoute("GET /api/system/status") /\ Success(sent)
    /\ nCreated >= 1

C9_WitnessThrows ==
    /\ got.op = "getDB"
    /\ got.res = Threw(NotInitMsg)
    /\ nClients = 1 /\ conn = "idle"

\* C10: after a clear has succeeded, and until the user starts a refresh or a
\* demo, the list shown is empty and no analysis is selected.
C10_ClearedStaysEmpty ==
    clearedView => analyses = <<>> /\ selectedAnalysis = Null

====
